---- MODULE Spec2Model ----
(***************************************************************************)
(* xcalib: load the vcgt tag of an ICC profile into the X11 video LUT.     *)
(* Model of src/xcalib.c: main() and the internal vcgt parser              *)
(* read_vcgt_from_profile() (build without ICCLIB / PATCHED_LCMS), and of  *)
(* main() in the ICCLIB build (SpecIcclib).                                *)
(*                                                                         *)
(* C arrays are sequences: C index k is element k+1.                       *)
(* message() output (verbose listing) is not part of the state; output of  *)
(* warning() and error() is the sequence out.                              *)
(***************************************************************************)
EXTENDS Integers, Sequences, FiniteSets, TLC

(* ------------------------------ bounds --------------------------------- *)
\* largest gamma ramp size the X server reports
MaxRamp == 4
\* largest entry count of a vcgt table in the input profiles
MaxEntries == 5
\* longest command line (number of arguments after argv[0])
MaxArgs == 3

(* ------------------------- program constants --------------------------- *)
HeaderLen == 128
Scale == 65563
VCGT == 1986226036

Min(a, b) == IF a < b THEN a ELSE b
Max(a, b) == IF a > b THEN a ELSE b

\* a scalar that holds no value yet (no value of the program is negative but
\* the return value -1)
Unset == -2

(* --------------------------- byte helpers ------------------------------ *)
\* cTmp[3]+cTmp[2]*256+cTmp[1]*65536+cTmp[0]*16777216
U32(b) == b[4] + b[3] * 256 + b[2] * 65536 + b[1] * 16777216
\* cTmp[1]+cTmp[0]*256
U16(b) == b[2] + b[1] * 256

\* number of bytes fread(cTmp, 1, n, fp) delivers at file position p
FreadCount(f, p, n) == Max(0, Min(n, Len(f) - p))
\* cTmp after fread(cTmp, 1, n, fp): only the delivered bytes are overwritten
FreadBuf(f, buf, p, n) ==
  [k \in 1..4 |-> IF k <= FreadCount(f, p, n) THEN f[p + k] ELSE buf[k]]

(* ------------------------ input profiles (bytes) ----------------------- *)
BE32(v) == << v \div 16777216, (v \div 65536) % 256, (v \div 256) % 256, v % 256 >>
BE16(v) == << (v \div 256) % 256, v % 256 >>

SigVcgt == << 118, 99, 103, 116 >>
SigDesc == << 100, 101, 115, 99 >>

Header == [k \in 1..HeaderLen |-> 0]

RECURSIVE Concat(_)
Concat(ss) == IF ss = << >> THEN << >> ELSE Head(ss) \o Concat(Tail(ss))

\* one sample of channel c, index k, written on es bytes
SampleBytes(pat, es, c, k) ==
  LET lo == IF pat = "inc" THEN k ELSE MaxEntries + 1 - k
  IN  IF es = 1 THEN << 16 * (c + 1) + lo >>
      ELSE IF es = 2 THEN << c + 1, lo >>
      ELSE << c + 1, lo, 7 >>

\* channel-major sample data: ch channels of n samples
SampleData(pat, ch, n, es) ==
  Concat([x \in 1..(ch * n) |-> SampleBytes(pat, es, (x - 1) \div n, (x - 1) % n)])

TableBody(sig, ch, n, es, pat) ==
  sig \o BE32(0) \o BE32(0) \o BE16(ch) \o BE16(n) \o BE16(es)
      \o (IF n = 0 THEN << >> ELSE SampleData(pat, ch, n, es))

FormulaBody(sig, gr, gg, gb) ==
  sig \o BE32(0) \o BE32(1)
      \o BE32(gr) \o BE32(0) \o BE32(65536)
      \o BE32(gg) \o BE32(0) \o BE32(65536)
      \o BE32(gb) \o BE32(0) \o BE32(65536)

OtherBody(sig, type) == sig \o BE32(0) \o BE32(type)

\* offsets of the tag bodies laid out one after the other behind the directory
RECURSIVE BodyOffsets(_, _)
BodyOffsets(bodies, start) ==
  IF bodies = << >> THEN << >>
  ELSE << start >> \o BodyOffsets(Tail(bodies), start + Len(Head(bodies)))

\* a profile: header, declared tag count, one directory entry and one body per tag
Profile(nDecl, sigs, bodies) ==
  LET offs == BodyOffsets(bodies, HeaderLen + 4 + 12 * Len(sigs))
  IN  Header \o BE32(nDecl)
        \o Concat([t \in 1..Len(sigs) |->
                     sigs[t] \o BE32(offs[t]) \o BE32(Len(bodies[t]))])
        \o Concat(bodies)

Truncated(f, n) == SubSeq(f, 1, n)

GammaSet == {0, 32768, 65536}

TableBodies ==
  { TableBody(SigVcgt, ch, n, es, pat) :
      ch \in {3, 1}, n \in 0..MaxEntries, es \in {1, 2, 3}, pat \in {"inc", "dec"} }

FormulaBodies ==
  { FormulaBody(SigVcgt, g, g, 65536) : g \in GammaSet }

\* well-formed directories with a vcgt tag, first or second
GoodProfiles ==
  { Profile(1, << SigVcgt >>, << b >>) : b \in TableBodies \cup FormulaBodies }
  \cup { Profile(2, << SigDesc, SigVcgt >>, << << 1, 2, 3 >>, b >>) :
           b \in { TableBody(SigVcgt, 3, MaxEntries, 2, "inc"),
                   TableBody(SigVcgt, 3, 2, 1, "inc"),
                   FormulaBody(SigVcgt, 65536, 32768, 0) } }

\* tag body that does not start with 'vcgt', unknown curve type, no vcgt tag
OddProfiles ==
  { Profile(1, << SigVcgt >>, << b >>) :
      b \in { TableBody(SigDesc, 3, 2, 2, "inc"),
              FormulaBody(SigDesc, 65536, 65536, 65536),
              OtherBody(SigVcgt, 2), OtherBody(SigDesc, 2) } }
  \cup { Profile(1, << SigDesc >>, << << 1, 2, 3 >> >>),
         Profile(0, << >>, << >>),
         Profile(2, << SigDesc, SigDesc >>, << << 1 >>, << 2 >> >>) }

\* profiles cut short, and profiles that declare more tags than they hold
ShortBase ==
  { Profile(1, << SigVcgt >>, << TableBody(SigVcgt, 3, 2, 2, "inc") >>),
    Profile(2, << SigDesc, SigVcgt >>,
            << << 1, 2, 3 >>, FormulaBody(SigVcgt, 65536, 65536, 65536) >>) }

ShortProfiles ==
  { Truncated(f, n) : f \in ShortBase, n \in {0} \cup (HeaderLen..(HeaderLen + 4 + 24 + 4)) }
  \cup { Truncated(f, Len(f) - d) : f \in ShortBase, d \in 1..7 }
  \cup { Header \o BE32(3) \o SigDesc \o BE32(144) \o BE32(4),
         Header \o BE32(2) \o SigDesc \o BE32(144) \o BE32(4) \o SigVcgt \o BE32(144),
         Header \o BE32(3) \o SigDesc \o BE32(144) \o BE32(4) \o SigVcgt \o << 0, 0 >> }

\* one vcgt entry whose directory size field sz is not the length of the body
ProfileSized(sz, body) ==
  Header \o BE32(1) \o SigVcgt \o BE32(HeaderLen + 4 + 12) \o BE32(sz) \o body

\* the size field ends the tag behind the table header, or behind the curve type,
\* and the payload follows in the file
OverrunProfiles ==
  { ProfileSized(12 + 6, TableBody(SigVcgt, 3, 2, 2, "inc")),
    ProfileSized(12, FormulaBody(SigVcgt, 65536, 32768, 65536)) }

\* directories with two vcgt entries that point at different bodies
TwoVcgtProfiles ==
  { Profile(2, << SigVcgt, SigVcgt >>,
            << FormulaBody(SigVcgt, 65536, 32768, 65536),
               TableBody(SigVcgt, 3, 2, 2, "dec") >>),
    Profile(3, << SigDesc, SigVcgt, SigVcgt >>,
            << << 1, 2, 3 >>, TableBody(SigVcgt, 3, 2, 2, "inc"),
               FormulaBody(SigVcgt, 0, 65536, 65536) >>) }

Profiles ==
  GoodProfiles \cup OddProfiles \cup ShortProfiles \cup OverrunProfiles \cup TwoVcgtProfiles

\* contents of storage that was never written (cTmp on entry, malloc'ed arrays)
GarbageBytes == { << 0, 0, 0, 0 >>, SigVcgt }
GarbageWord == {0, 9}

Tokens == {"-h", "-v", "-version", "-d", "-s", "-c", "-n", "prof"}
ArgVectors == UNION { [1..n -> Tokens] : n \in 0..MaxArgs }

\* malloc(n * sizeof(unsigned short)): n cells holding whatever the heap held
Malloc(n, g) == [k \in 1..n |-> g]
\* a ramp pointer of main that was never assigned
NoRamp == << >>

(* ------------------------------- state --------------------------------- *)
VARIABLES
  pc,          \* position in main / read_vcgt_from_profile
  build,       \* "internal" or "icclib": the parser compiled in
  clear, donothing, in_name, ramp_size,      \* main
  r_ramp, g_ramp, b_ramp,                     \* main: the ramps handed to X
  status,      \* exit status of the process, Unset while it runs
  out,         \* texts printed by warning() and error()
  xcalls,      \* calls made that alter the display gamma state
  ret,         \* return value of read_vcgt_from_profile, Unset until it returns
  file, pos,   \* fp: contents and position of the open profile
  cTmp, bytesRead, numTags, tagName, tagOffset, tagSize, gammaType, i, j,
  fml,         \* the nine formula words rGamma, rMin, rMax, gGamma, ...
  numChannels, numEntries, entrySize, chan,
  redRamp, greenRamp, blueRamp, ratio,
  ob           \* ICCLIB build: the icmVideoCardGamma object read_tag returned

mainVars == << pc, build, clear, donothing, in_name, ramp_size, r_ramp, g_ramp, b_ramp,
               status, out, xcalls, ret >>
mainRest == << build, clear, donothing, in_name, ramp_size, r_ramp, g_ramp, b_ramp,
                      status, out, xcalls, ret >>
fileVars == << file, pos, cTmp, bytesRead >>
dirVars == << numTags, tagName, tagOffset, tagSize, i >>
curveVars == << gammaType, j, fml, numChannels, numEntries, entrySize, chan,
                redRamp, greenRamp, blueRamp, ratio >>
vars == << mainVars, fileVars, dirVars, curveVars, ob >>

InitCommon ==
  /\ pc = "args"
  /\ clear = FALSE /\ donothing = FALSE /\ in_name = FALSE
  /\ ramp_size = Unset
  /\ r_ramp = NoRamp /\ g_ramp = NoRamp /\ b_ramp = NoRamp
  /\ status = Unset
  /\ out = << >> /\ xcalls = << >>
  /\ ret = Unset
  /\ file = << >> /\ pos = 0
  /\ cTmp = << 0, 0, 0, 0 >> /\ bytesRead = 0
  /\ numTags = 0 /\ tagName = 0 /\ tagOffset = 0 /\ tagSize = 0
  /\ gammaType = Unset /\ i = 0 /\ j = 0
  /\ fml = << >>
  /\ numChannels = 0 /\ numEntries = 0 /\ entrySize = 0 /\ chan = 0
  /\ redRamp = << >> /\ greenRamp = << >> /\ blueRamp = << >> /\ ratio = 0
  /\ ob = [tagType |-> "none"]

Init == InitCommon /\ build = "internal"

(* ------------------------ error(), warning() --------------------------- *)
\* error(): print to stderr, then exit(-1)
error(msg) ==
  /\ out' = Append(out, msg)
  /\ status' = 255
  /\ pc' = "exited"

\* warning(): print to stdout and return
warning(msg) == out' = Append(out, msg)

(* ------------------------------- main ---------------------------------- *)
\* the option loop from argument a on; st.exit is set when usage() or
\* -version ends the process
RECURSIVE ParseFrom(_, _, _)
ParseFrom(argv, a, st) ==
  IF a > Len(argv) THEN st
  ELSE IF argv[a] = "-h" THEN [st EXCEPT !.exit = 1]
  ELSE IF argv[a] = "-v" THEN ParseFrom(argv, a + 1, st)
  ELSE IF argv[a] = "-version" THEN [st EXCEPT !.exit = 0]
  ELSE IF argv[a] \in {"-d", "-s"} THEN
         IF a + 1 > Len(argv) THEN [st EXCEPT !.exit = 1]
         ELSE ParseFrom(argv, a + 2, st)
  ELSE IF argv[a] = "-c" THEN ParseFrom(argv, a + 1, [st EXCEPT !.clear = TRUE])
  ELSE IF argv[a] = "-n" THEN ParseFrom(argv, a + 1, [st EXCEPT !.donothing = TRUE])
  ELSE IF a # Len(argv) /\ ~st.clear THEN [st EXCEPT !.exit = 1]
  ELSE ParseFrom(argv, a + 1, IF st.clear THEN st ELSE [st EXCEPT !.in_name = TRUE])

ParseArgs ==
  /\ pc = "args"
  /\ \E argv \in ArgVectors :
       LET st == IF Len(argv) = 0
                 THEN [clear |-> FALSE, donothing |-> FALSE, in_name |-> FALSE, exit |-> 1]
                 ELSE ParseFrom(argv, 1, [clear |-> FALSE, donothing |-> FALSE,
                                          in_name |-> FALSE, exit |-> Unset])
       IN  /\ clear' = st.clear
           /\ donothing' = st.donothing
           /\ in_name' = st.in_name
           /\ IF st.exit # Unset
              THEN status' = st.exit /\ pc' = "exited"
              ELSE status' = status /\ pc' = IF build = "internal" THEN "display" ELSE "icc_open"
  /\ UNCHANGED << build, ramp_size, r_ramp, g_ramp, b_ramp, out, xcalls, ret,
                  fileVars, dirVars, curveVars, ob >>

\* XOpenDisplay
OpenDisplay ==
  /\ pc = "display"
  /\ \E ok \in BOOLEAN :
       IF ok
       THEN /\ pc' = IF clear THEN "clear" ELSE "rampsize"
            /\ UNCHANGED << out, status >>
       ELSE error("Can't open display")
  /\ UNCHANGED << build, clear, donothing, in_name, ramp_size, r_ramp, g_ramp, b_ramp,
                  xcalls, ret, fileVars, dirVars, curveVars, ob >>

\* -clear: XF86VidModeSetGamma(1.0, 1.0, 1.0), then cleanupX
ClearGamma ==
  /\ pc = "clear"
  /\ xcalls' = Append(xcalls, [fn |-> "XF86VidModeSetGamma"])
  /\ \E ok \in BOOLEAN :
       IF ok
       THEN pc' = "cleanupX" /\ UNCHANGED << out, status >>
       ELSE error("Unable to reset display gamma")
  /\ UNCHANGED << build, clear, donothing, in_name, ramp_size, r_ramp, g_ramp, b_ramp,
                  ret, fileVars, dirVars, curveVars, ob >>

\* XF86VidModeGetGammaRampSize
GetRampSize ==
  /\ pc = "rampsize"
  /\ \E ok \in BOOLEAN :
       IF ok
       THEN /\ \E n \in 1..MaxRamp : ramp_size' = n
            /\ pc' = IF build = "internal" THEN "fopen" ELSE "icc_read"
            /\ UNCHANGED << out, status >>
       ELSE /\ error("Unable to query gamma ramp size")
            /\ UNCHANGED ramp_size
  /\ UNCHANGED << build, clear, donothing, in_name, r_ramp, g_ramp, b_ramp,
                  xcalls, ret, fileVars, dirVars, curveVars, ob >>

(* ---------------------- read_vcgt_from_profile ------------------------- *)
\* fopen(filename, "rb"); cTmp is an uninitialized local
Fopen ==
  /\ pc = "fopen"
  /\ \/ /\ ret' = -1
        /\ pc' = "print"
        /\ UNCHANGED << file, cTmp >>
     \/ /\ \E f \in Profiles : file' = f
        /\ \E g \in GarbageBytes : cTmp' = g
        /\ pc' = "numtags"
        /\ UNCHANGED ret
  /\ UNCHANGED << build, clear, donothing, in_name, ramp_size, r_ramp, g_ramp, b_ramp,
                  status, out, xcalls, pos, bytesRead, dirVars, curveVars, ob >>

\* skip the header, read the tag count, enter the directory loop
ReadNumTags ==
  /\ pc = "numtags"
  /\ bytesRead' = FreadCount(file, HeaderLen, 4)
  /\ cTmp' = FreadBuf(file, cTmp, HeaderLen, 4)
  /\ pos' = HeaderLen + bytesRead'
  /\ numTags' = U32(cTmp')
  /\ i' = 0
  /\ pc' = IF 0 < numTags' THEN "dir_name" ELSE "cleanup"
  /\ UNCHANGED << mainRest, file, tagName, tagOffset, tagSize, curveVars, ob >>

\* one fread of 4 bytes into cTmp at the current position
Fread4 ==
  /\ bytesRead' = FreadCount(file, pos, 4)
  /\ cTmp' = FreadBuf(file, cTmp, pos, 4)
  /\ pos' = pos + bytesRead'
  /\ UNCHANGED file

ReadTagName ==
  /\ pc = "dir_name"
  /\ Fread4
  /\ tagName' = U32(cTmp')
  /\ pc' = "dir_off"
  /\ UNCHANGED << mainRest, numTags, tagOffset, tagSize, i, curveVars, ob >>

ReadTagOffset ==
  /\ pc = "dir_off"
  /\ Fread4
  /\ tagOffset' = U32(cTmp')
  /\ pc' = "dir_size"
  /\ UNCHANGED << mainRest, numTags, tagName, tagSize, i, curveVars, ob >>

ReadTagSize ==
  /\ pc = "dir_size"
  /\ Fread4
  /\ tagSize' = U32(cTmp')
  /\ pc' = "dir_check"
  /\ UNCHANGED << mainRest, numTags, tagName, tagOffset, i, curveVars, ob >>

\* variant of DirCheck: a vcgt entry that is not the last declared one is passed
\* over, the scan goes on to the next entry
DirCheck_KeepsScanning ==
  /\ pc = "dir_check"
  /\ IF bytesRead = 0
     THEN pc' = "cleanup" /\ UNCHANGED << pos, i >>
     ELSE IF tagName = VCGT /\ i + 1 >= numTags
     THEN pc' = "tag_sig" /\ pos' = tagOffset /\ UNCHANGED i
     ELSE /\ i' = i + 1
          /\ pc' = IF i' < numTags THEN "dir_name" ELSE "cleanup"
          /\ UNCHANGED pos
  /\ UNCHANGED << mainRest, file, cTmp, bytesRead, numTags, tagName, tagOffset,
                  tagSize, curveVars, ob >>

\* if(!bytesRead) goto cleanup; if(tagName == 'vcgt') fseek to the tag; else next entry
DirCheck ==
  /\ pc = "dir_check"
  /\ IF bytesRead = 0
     THEN pc' = "cleanup" /\ UNCHANGED << pos, i >>
     ELSE IF tagName = VCGT
     THEN pc' = "tag_sig" /\ pos' = tagOffset /\ UNCHANGED i
     ELSE /\ i' = i + 1
          /\ pc' = IF i' < numTags THEN "dir_name" ELSE "cleanup"
          /\ UNCHANGED pos
  /\ UNCHANGED << mainRest, file, cTmp, bytesRead, numTags, tagName, tagOffset,
                  tagSize, curveVars, ob >>

\* variant of ReadTagSig: the mismatch is reported with warning() and decoding goes on
ReadTagSig_WarnOnly ==
  /\ pc = "tag_sig"
  /\ Fread4
  /\ tagName' = U32(cTmp')
  /\ IF tagName' # VCGT
     THEN warning("invalid content of table vcgt")
     ELSE out' = out
  /\ pc' = "tag_reserved"
  /\ UNCHANGED << build, clear, donothing, in_name, ramp_size, r_ramp, g_ramp, b_ramp,
                  status, xcalls, ret, numTags, tagOffset, tagSize, i, curveVars, ob >>

\* re-read the signature at tagOffset; error() on a mismatch
ReadTagSig ==
  /\ pc = "tag_sig"
  /\ Fread4
  /\ tagName' = U32(cTmp')
  /\ IF tagName' # VCGT
     THEN error("invalid content of table vcgt")
     ELSE pc' = "tag_reserved" /\ UNCHANGED << out, status >>
  /\ UNCHANGED << build, clear, donothing, in_name, ramp_size, r_ramp, g_ramp, b_ramp,
                  xcalls, ret, numTags, tagOffset, tagSize, i, curveVars, ob >>

ReadReserved ==
  /\ pc = "tag_reserved"
  /\ Fread4
  /\ pc' = "tag_type"
  /\ UNCHANGED << mainRest, dirVars, curveVars, ob >>

ReadGammaType ==
  /\ pc = "tag_type"
  /\ Fread4
  /\ gammaType' = U32(cTmp')
  /\ pc' = IF gammaType' = 1 THEN "formula"
           ELSE IF gammaType' = 0 THEN "table" ELSE "cleanup"
  /\ UNCHANGED << mainRest, dirVars, j, fml, numChannels, numEntries, entrySize,
                  chan, redRamp, greenRamp, blueRamp, ratio, ob >>

(* VideoCardGammaFormula *)
\* k consecutive fread(cTmp, 1, 4, fp), each followed by uTmp = the 32-bit value
RECURSIVE ReadWords(_, _, _, _)
ReadWords(f, buf, p, k) ==
  IF k = 0 THEN [buf |-> buf, pos |-> p, cnt |-> 0, words |-> << >>]
  ELSE LET b == FreadBuf(f, buf, p, 4)
           c == FreadCount(f, p, 4)
           rest == ReadWords(f, b, p + c, k - 1)
       IN  [buf |-> rest.buf, pos |-> rest.pos,
            cnt |-> IF k = 1 THEN c ELSE rest.cnt,
            words |-> << U32(b) >> \o rest.words]

\* the nine words rGamma, rMin, rMax, gGamma, gMin, gMax, bGamma, bMin, bMax,
\* kept as the 16.16 fixed-point integers read (value * 65536)
ReadFormula ==
  /\ pc = "formula"
  /\ LET r == ReadWords(file, cTmp, pos, 9)
     IN  /\ cTmp' = r.buf
         /\ pos' = r.pos
         /\ bytesRead' = r.cnt
         /\ fml' = r.words
  /\ pc' = "formula_eval"
  /\ UNCHANGED << mainRest, file, dirVars, gammaType, j, numChannels, numEntries,
                  entrySize, chan, redRamp, greenRamp, blueRamp, ratio, ob >>

RECURSIVE Pow(_, _)
Pow(b, e) == IF e = 0 THEN 1 ELSE b * Pow(b, e - 1)

\* 65563 * pow(j / n, gamma * SYSTEM_GAMMA) truncated to an integer, gamma = g / 65536.
\* pow(x, 0) is 1 for every x, pow(0, e) is 0 for e > 0. For 0 < x < 1 and e > 0 the
\* power with a fractional exponent is not an integer computation: the value lies
\* between the powers with the integer exponents that enclose e, and side picks
\* the lower or the upper of these two.
SysGammaMicro == 2222222
FormulaScaled(jj, n, g, side) ==
  LET h == Min(g \div 32768, 5)
      eLo == (h * (SysGammaMicro \div 2)) \div 1000000
      eHi == ((h + 1) * (SysGammaMicro \div 2)) \div 1000000 + 1
  IN  IF g = 0 THEN Scale
      ELSE IF jj = 0 THEN 0
      ELSE IF side = "hi" THEN (Scale * Pow(jj, eLo)) \div Pow(n, eLo)
      ELSE IF g \div 32768 > 5 THEN 0
      ELSE (Scale * Pow(jj, eHi)) \div Pow(n, eHi)

\* storing a double into an unsigned short: a value above 65535 is out of range
\* for the conversion (undefined): the build either wraps or saturates
Narrow(v, mode) == IF v <= 65535 THEN v ELSE IF mode = "wrap" THEN v % 65536 ELSE 65535

FormulaRamp(n, g, side, mode) ==
  [k \in 1..n |-> Narrow(FormulaScaled(k - 1, n, g, side), mode)]

EvalFormula ==
  /\ pc = "formula_eval"
  /\ \E side \in {"lo", "hi"}, mode \in {"wrap", "sat"} :
       /\ r_ramp' = FormulaRamp(ramp_size, fml[1], side, mode)
       /\ g_ramp' = FormulaRamp(ramp_size, fml[4], side, mode)
       /\ b_ramp' = FormulaRamp(ramp_size, fml[7], side, mode)
  /\ j' = ramp_size
  /\ pc' = "cleanup"
  /\ UNCHANGED << build, clear, donothing, in_name, ramp_size, status, out, xcalls, ret,
                  fileVars, dirVars, gammaType, fml, numChannels, numEntries, entrySize,
                  chan, redRamp, greenRamp, blueRamp, ratio, ob >>

(* VideoCardGammaTable *)
\* numChannels, numEntries, entrySize: three reads of 2 bytes
ReadTableHeader ==
  /\ pc = "table"
  /\ LET c1 == FreadCount(file, pos, 2)
         b1 == FreadBuf(file, cTmp, pos, 2)
         c2 == FreadCount(file, pos + c1, 2)
         b2 == FreadBuf(file, b1, pos + c1, 2)
         c3 == FreadCount(file, pos + c1 + c2, 2)
         b3 == FreadBuf(file, b2, pos + c1 + c2, 2)
     IN  /\ numChannels' = U16(b1)
         /\ numEntries' = U16(b2)
         /\ entrySize' = U16(b3)
         /\ cTmp' = b3
         /\ bytesRead' = c3
         /\ pos' = pos + c1 + c2 + c3
  /\ pc' = IF numChannels' # 3 THEN "cleanup" ELSE "alloc"
  /\ UNCHANGED << mainRest, file, dirVars, gammaType, j, fml, chan,
                  redRamp, greenRamp, blueRamp, ratio, ob >>

\* redRamp, greenRamp, blueRamp = malloc(numEntries * sizeof(unsigned short))
AllocSamples ==
  /\ pc = "alloc"
  /\ \E gr \in GarbageWord, gg \in GarbageWord, gb \in GarbageWord :
       /\ redRamp' = Malloc(numEntries, gr)
       /\ greenRamp' = Malloc(numEntries, gg)
       /\ blueRamp' = Malloc(numEntries, gb)
  /\ j' = 0
  /\ chan' = 0
  /\ pc' = IF numEntries = 0 THEN "resample" ELSE "samples"
  /\ UNCHANGED << mainRest, fileVars, dirVars, gammaType, fml, numChannels, numEntries,
                  entrySize, ratio, ob >>

\* one pass of switch(entrySize) for sample j of channel chan: case 1 reads one
\* byte and falls through into case 2, which reads two bytes and stores again;
\* any other entrySize reads and stores nothing
SampleRead(f, buf, p, es) ==
  LET c1 == IF es = 1 THEN FreadCount(f, p, 1) ELSE 0
      b1 == IF es = 1 THEN FreadBuf(f, buf, p, 1) ELSE buf
      c2 == FreadCount(f, p + c1, 2)
      b2 == FreadBuf(f, b1, p + c1, 2)
  IN  IF es \in {1, 2}
      THEN [buf |-> b2, pos |-> p + c1 + c2, cnt |-> c2, stored |-> TRUE, val |-> U16(b2)]
      ELSE [buf |-> buf, pos |-> p, cnt |-> 0, stored |-> FALSE, val |-> 0]

ReadSample ==
  /\ pc = "samples"
  /\ LET r == SampleRead(file, cTmp, pos, entrySize)
     IN  /\ cTmp' = r.buf
         /\ pos' = r.pos
         /\ bytesRead' = IF r.stored THEN r.cnt ELSE bytesRead
         /\ redRamp' = IF chan = 0 /\ r.stored
                       THEN [redRamp EXCEPT ![j + 1] = r.val] ELSE redRamp
         /\ greenRamp' = IF chan = 1 /\ r.stored
                         THEN [greenRamp EXCEPT ![j + 1] = r.val] ELSE greenRamp
         /\ blueRamp' = IF chan = 2 /\ r.stored
                        THEN [blueRamp EXCEPT ![j + 1] = r.val] ELSE blueRamp
  /\ IF j + 1 < numEntries
     THEN j' = j + 1 /\ chan' = chan /\ pc' = "samples"
     ELSE IF chan < 2
     THEN j' = 0 /\ chan' = chan + 1 /\ pc' = "samples"
     ELSE j' = j + 1 /\ chan' = chan /\ pc' = "resample"
  /\ UNCHANGED << mainRest, file, dirVars, gammaType, fml, numChannels, numEntries,
                  entrySize, ratio, ob >>

(* interpolate if vcgt size doesn't match video card's gamma table *)
\* variant of CopyRamp: red and green exchanged
CopyRamp_Swapped ==
  /\ pc = "resample"
  /\ ramp_size = numEntries
  /\ r_ramp' = greenRamp
  /\ g_ramp' = redRamp
  /\ b_ramp' = blueRamp
  /\ pc' = "cleanup"
  /\ UNCHANGED << build, clear, donothing, in_name, ramp_size, status, out, xcalls, ret,
                  fileVars, dirVars, curveVars, ob >>

\* *nEntries == numEntries: the sample arrays themselves become the ramps
CopyRamp ==
  /\ pc = "resample"
  /\ ramp_size = numEntries
  /\ r_ramp' = redRamp
  /\ g_ramp' = greenRamp
  /\ b_ramp' = blueRamp
  /\ pc' = "cleanup"
  /\ UNCHANGED << build, clear, donothing, in_name, ramp_size, status, out, xcalls, ret,
                  fileVars, dirVars, curveVars, ob >>

\* the ramps are malloc'ed afresh and filled by the loop that follows
AllocRamps ==
  /\ \E gr \in GarbageWord, gg \in GarbageWord, gb \in GarbageWord :
       /\ r_ramp' = Malloc(ramp_size, gr)
       /\ g_ramp' = Malloc(ramp_size, gg)
       /\ b_ramp' = Malloc(ramp_size, gb)
  /\ j' = 0

\* *nEntries < numEntries
StartDown ==
  /\ pc = "resample"
  /\ ramp_size < numEntries
  /\ ratio' = numEntries \div ramp_size
  /\ AllocRamps
  /\ pc' = "down"
  /\ UNCHANGED << build, clear, donothing, in_name, ramp_size, status, out, xcalls, ret,
                  fileVars, dirVars, gammaType, fml, numChannels, numEntries, entrySize,
                  chan, redRamp, greenRamp, blueRamp, ob >>

\* *nEntries > numEntries; numEntries = 0 divides by zero
StartUp ==
  /\ pc = "resample"
  /\ ramp_size > numEntries
  /\ IF numEntries = 0
     THEN /\ pc' = "crashed"
          /\ UNCHANGED << r_ramp, g_ramp, b_ramp, j, ratio >>
     ELSE /\ ratio' = ramp_size \div numEntries
          /\ AllocRamps
          /\ pc' = "up"
  /\ UNCHANGED << build, clear, donothing, in_name, ramp_size, status, out, xcalls, ret,
                  fileVars, dirVars, gammaType, fml, numChannels, numEntries, entrySize,
                  chan, redRamp, greenRamp, blueRamp, ob >>

\* variant of DownIndex: the sample after the decimation point
DownIndex_Next == ratio * j + 1

\* index of the sample read for ramp entry j
DownIndex == ratio * j
UpIndex == j \div ratio

\* values a read of samples[idx] can deliver: the sample, or, past the end of
\* the malloc'ed array, whatever lies behind it
CellValues(samples, idx) ==
  IF idx < Len(samples) THEN {samples[idx + 1]} ELSE GarbageWord

\* rRamp[0][j] = redRamp[idx]; gRamp[0][j] = greenRamp[idx]; bRamp[0][j] = blueRamp[idx];
\* a read past the end may also fault
FillStep(idx, here) ==
  \/ /\ \E vr \in CellValues(redRamp, idx), vg \in CellValues(greenRamp, idx),
           vb \in CellValues(blueRamp, idx) :
          /\ r_ramp' = [r_ramp EXCEPT ![j + 1] = vr]
          /\ g_ramp' = [g_ramp EXCEPT ![j + 1] = vg]
          /\ b_ramp' = [b_ramp EXCEPT ![j + 1] = vb]
     /\ j' = j + 1
     /\ pc' = IF j' < ramp_size THEN here ELSE "cleanup"
  \/ /\ idx >= numEntries
     /\ pc' = "crashed"
     /\ UNCHANGED << r_ramp, g_ramp, b_ramp, j >>

DownStep ==
  /\ pc = "down"
  /\ FillStep(DownIndex, "down")
  /\ UNCHANGED << build, clear, donothing, in_name, ramp_size, status, out, xcalls, ret,
                  fileVars, dirVars, gammaType, fml, numChannels, numEntries, entrySize,
                  chan, redRamp, greenRamp, blueRamp, ratio, ob >>

UpStep ==
  /\ pc = "up"
  /\ FillStep(UpIndex, "up")
  /\ UNCHANGED << build, clear, donothing, in_name, ramp_size, status, out, xcalls, ret,
                  fileVars, dirVars, gammaType, fml, numChannels, numEntries, entrySize,
                  chan, redRamp, greenRamp, blueRamp, ratio, ob >>

\* cleanup_fileparser: fclose(fp); return 0;
Cleanup ==
  /\ pc = "cleanup"
  /\ ret' = 0
  /\ pc' = "print"
  /\ UNCHANGED << build, clear, donothing, in_name, ramp_size, r_ramp, g_ramp, b_ramp,
                  status, out, xcalls, fileVars, dirVars, curveVars, ob >>

(* --------------------------- main, continued --------------------------- *)
\* for(i...) message("%x %x %x\n", r_ramp[i], g_ramp[i], b_ramp[i]): the ramps are
\* read whatever the verbose flag; through pointers never assigned the read is
\* undefined: it faults or delivers whatever lies there
PrintRamp ==
  /\ pc = "print"
  /\ \/ pc' = IF donothing THEN "finish" ELSE "setramp"
     \/ r_ramp = NoRamp /\ pc' = "crashed"
  /\ UNCHANGED << mainRest, fileVars, dirVars, curveVars, ob >>

\* if(!donothing) XF86VidModeSetGammaRamp(dpy, screen, ramp_size, r_ramp, g_ramp, b_ramp)
SetGammaRamp ==
  /\ pc = "setramp"
  /\ \/ /\ xcalls' = Append(xcalls, [fn |-> "XF86VidModeSetGammaRamp", size |-> ramp_size,
                                     red |-> r_ramp, green |-> g_ramp, blue |-> b_ramp])
        /\ \E ok \in BOOLEAN :
             IF ok THEN out' = out ELSE warning("Unable to calibrate display")
        /\ pc' = "finish"
     \/ /\ r_ramp = NoRamp
        /\ pc' = "crashed"
        /\ UNCHANGED << xcalls, out >>
  /\ UNCHANGED << build, clear, donothing, in_name, ramp_size, r_ramp, g_ramp, b_ramp,
                  status, ret, fileVars, dirVars, curveVars, ob >>

\* the parser's objects are released and the LUT size is reported
Finish ==
  /\ pc = "finish"
  /\ pc' = "cleanupX"
  /\ UNCHANGED << mainRest, fileVars, dirVars, curveVars, ob >>

\* cleanupX: XCloseDisplay(dpy); return 0;
CloseDisplay ==
  /\ pc = "cleanupX"
  /\ status' = 0
  /\ pc' = "exited"
  /\ UNCHANGED << build, clear, donothing, in_name, ramp_size, r_ramp, g_ramp, b_ramp,
                  out, xcalls, ret, fileVars, dirVars, curveVars, ob >>

Next ==
  \/ ParseArgs \/ OpenDisplay \/ ClearGamma \/ GetRampSize
  \/ Fopen \/ ReadNumTags \/ ReadTagName \/ ReadTagOffset \/ ReadTagSize \/ DirCheck
  \/ ReadTagSig \/ ReadReserved \/ ReadGammaType
  \/ ReadFormula \/ EvalFormula
  \/ ReadTableHeader \/ AllocSamples \/ ReadSample
  \/ CopyRamp \/ StartDown \/ StartUp \/ DownStep \/ UpStep
  \/ Cleanup \/ PrintRamp \/ SetGammaRamp \/ Finish \/ CloseDisplay

Spec == Init /\ [][Next]_vars

(* ------------------------- main, ICCLIB build -------------------------- *)
\* what icclib's read_tag can return for the vcgt tag: a table of 8 or 16 bit
\* entries, channel after channel, or a formula
IccSample(pat, k) == IF pat = "inc" THEN 100 + 20 * k ELSE 100 + 20 * (MaxEntries - k)
IccData(pats, n) ==
  [x \in 1..(Len(pats) * n) |-> IccSample(pats[(x - 1) \div n + 1], (x - 1) % n)]

IccTables ==
  { [tagType |-> "table", ttypeOk |-> t, channels |-> 3, entryCount |-> n, entrySize |-> es,
     data |-> IccData(<< pr, pg, pb >>, n)] :
      t \in BOOLEAN, n \in 1..MaxEntries, es \in {1, 2},
      pr \in {"inc", "dec"}, pg \in {"inc", "dec"}, pb \in {"inc", "dec"} }
  \cup { [tagType |-> "table", ttypeOk |-> TRUE, channels |-> 1, entryCount |-> n,
          entrySize |-> 2, data |-> IccData(<< "inc" >>, n)] : n \in 1..MaxEntries }

IccFormulas ==
  { [tagType |-> "formula", ttypeOk |-> TRUE, redGamma |-> g, greenGamma |-> g,
     blueGamma |-> 65536] : g \in GammaSet }

IccObjects == IccTables \cup IccFormulas

InitIcclib == InitCommon /\ build = "icclib"

\* if (!clear): new_icmFileStd_name(in_name, "r"), new_icc()
IccOpenFile ==
  /\ pc = "icc_open"
  /\ IF clear
     THEN pc' = "display" /\ UNCHANGED << out, status >>
     ELSE \E ok \in BOOLEAN :
            IF ok THEN pc' = "display" /\ UNCHANGED << out, status >>
            ELSE error("Can't open file")
  /\ UNCHANGED << build, clear, donothing, in_name, ramp_size, r_ramp, g_ramp, b_ramp,
                  xcalls, ret, fileVars, dirVars, curveVars, ob >>

\* icco->read(icco, fp, offset)
IccRead ==
  /\ pc = "icc_read"
  /\ \E ok \in BOOLEAN :
       IF ok THEN pc' = "icc_find" /\ UNCHANGED << out, status >>
       ELSE error("icc read")
  /\ UNCHANGED << build, clear, donothing, in_name, ramp_size, r_ramp, g_ramp, b_ramp,
                  xcalls, ret, fileVars, dirVars, curveVars, ob >>

\* icco->find_tag(icco, icSigVideoCardGammaTag): 0 found, 1 inconsistent, else absent
IccFindTag ==
  /\ pc = "icc_find"
  /\ \E rv \in {0, 1, 2} :
       IF rv = 0 THEN pc' = "icc_readtag" /\ UNCHANGED << out, status >>
       ELSE IF rv = 1
       THEN /\ warning("found vcgt-tag but inconsistent values")
            /\ pc' = "print"
            /\ UNCHANGED status
       ELSE error("can't find tag in file")
  /\ UNCHANGED << build, clear, donothing, in_name, ramp_size, r_ramp, g_ramp, b_ramp,
                  xcalls, ret, fileVars, dirVars, curveVars, ob >>

\* icco->read_tag(icco, sig), the ttype check, and the switch on ob->tagType
IccReadTag ==
  /\ pc = "icc_readtag"
  /\ \/ /\ warning("Failed to read video card gamma table")
        /\ pc' = "print"
        /\ UNCHANGED ob
     \/ \E o \in IccObjects :
          /\ ob' = o
          /\ IF o.ttypeOk THEN out' = out
             ELSE warning("Video card gamma table is in inconsistent state")
          /\ pc' = IF o.tagType = "table" THEN "icc_table" ELSE "icc_formula"
  /\ UNCHANGED << build, clear, donothing, in_name, ramp_size, r_ramp, g_ramp, b_ramp,
                  status, xcalls, ret, fileVars, dirVars, curveVars >>

\* (unsigned short)((char *) data)[k]: a plain char is signed or unsigned as the
\* platform has it; (unsigned short)((short *) data)[k] keeps the 16 bits
IccConv(v, es, signedChar) ==
  IF es = 1 /\ signedChar /\ v >= 128 THEN 65536 - 256 + v ELSE v

\* entry k (from 0) of channel c of the ramp filled from the table; the three
\* loops run i over 0 .. 3 * ramp_size - 1 and read data[i * ramp_scaling]
IccTableCell(c, k, oob, signedChar) ==
  LET ramp_scaling == ob.entryCount \div ramp_size
      idx == (c * ramp_size + k) * ramp_scaling
  IN  IF idx < Len(ob.data) THEN IccConv(ob.data[idx + 1], ob.entrySize, signedChar)
      ELSE oob

\* case icmVideoCardGammaTableType: each ramp is malloc'ed with ramp_size + 1 cells
IccTable ==
  /\ pc = "icc_table"
  /\ IF ob.entryCount < ramp_size
     THEN /\ error("vcgt-tag does not contain enough data for this Video-LUT")
          /\ UNCHANGED << r_ramp, g_ramp, b_ramp >>
     ELSE /\ \E g \in GarbageWord, oob \in GarbageWord, signedChar \in BOOLEAN :
               /\ r_ramp' = [k \in 1..(ramp_size + 1) |->
                               IF k <= ramp_size /\ ob.entrySize \in {1, 2}
                               THEN IccTableCell(0, k - 1, oob, signedChar) ELSE g]
               /\ g_ramp' = [k \in 1..(ramp_size + 1) |->
                               IF k <= ramp_size /\ ob.entrySize \in {1, 2}
                               THEN IccTableCell(1, k - 1, oob, signedChar) ELSE g]
               /\ b_ramp' = [k \in 1..(ramp_size + 1) |->
                               IF k <= ramp_size /\ ob.entrySize \in {1, 2}
                               THEN IccTableCell(2, k - 1, oob, signedChar) ELSE g]
          /\ pc' = "validate"
          /\ UNCHANGED << out, status >>
  /\ UNCHANGED << build, clear, donothing, in_name, ramp_size, xcalls, ret,
                  fileVars, dirVars, curveVars, ob >>

\* case icmVideoCardGammaFormulaType
IccFormula ==
  /\ pc = "icc_formula"
  /\ \E side \in {"lo", "hi"}, mode \in {"wrap", "sat"}, g \in GarbageWord :
       /\ r_ramp' = FormulaRamp(ramp_size, ob.redGamma, side, mode) \o << g >>
       /\ g_ramp' = FormulaRamp(ramp_size, ob.greenGamma, side, mode) \o << g >>
       /\ b_ramp' = FormulaRamp(ramp_size, ob.blueGamma, side, mode) \o << g >>
  /\ pc' = "validate"
  /\ UNCHANGED << build, clear, donothing, in_name, ramp_size, status, out, xcalls, ret,
                  fileVars, dirVars, curveVars, ob >>

\* the warnings of the loop for (i = 0; i < ramp_size - 1; i++) from entry k on
RECURSIVE Nonsense(_, _, _, _, _)
Nonsense(r, g, b, k, n) ==
  IF k >= n THEN << >>
  ELSE (IF r[k + 1] < r[k] THEN << "nonsense content in red gamma table" >> ELSE << >>)
       \o (IF g[k + 1] < g[k] THEN << "nonsense content in green gamma table" >> ELSE << >>)
       \o (IF b[k + 1] < b[k] THEN << "nonsense content in blue gamma table" >> ELSE << >>)
       \o Nonsense(r, g, b, k + 1, n)

\* variant of Validate: the loop stops one pair early
Validate_StopsEarly ==
  /\ pc = "validate"
  /\ out' = out \o Nonsense(r_ramp, g_ramp, b_ramp, 1, ramp_size - 1)
  /\ pc' = "print"
  /\ UNCHANGED << build, clear, donothing, in_name, ramp_size, r_ramp, g_ramp, b_ramp,
                  status, xcalls, ret, fileVars, dirVars, curveVars, ob >>

\* debug stuff: print ramps
Validate ==
  /\ pc = "validate"
  /\ out' = out \o Nonsense(r_ramp, g_ramp, b_ramp, 1, ramp_size)
  /\ pc' = "print"
  /\ UNCHANGED << build, clear, donothing, in_name, ramp_size, r_ramp, g_ramp, b_ramp,
                  status, xcalls, ret, fileVars, dirVars, curveVars, ob >>

NextIcclib ==
  \/ ParseArgs \/ IccOpenFile \/ OpenDisplay \/ ClearGamma \/ GetRampSize
  \/ IccRead \/ IccFindTag \/ IccReadTag \/ IccTable \/ IccFormula \/ Validate
  \/ PrintRamp \/ SetGammaRamp \/ Finish \/ CloseDisplay

SpecIcclib == InitIcclib /\ [][NextIcclib]_vars

(* ======================================================================= *)
(* Properties                                                              *)
(* ======================================================================= *)
\* the ramp-consumer XF86VidModeSetGammaRamp has been invoked
ConsumerCalled == \E k \in 1..Len(xcalls) : xcalls[k].fn = "XF86VidModeSetGammaRamp"

\* read_vcgt_from_profile has returned to main
Returned == ret # Unset

\* size asked for by the last fread before the return
LastReadWant == IF gammaType = 0 THEN 2 ELSE 4

\* decoding ended in a fatal condition: profile unreadable, a short read, no
\* directory entry 'vcgt', a curve type other than 0 and 1, channelCount # 3
FatalDecode ==
  /\ Returned
  /\ \/ ret = -1
     \/ bytesRead < LastReadWant
     \/ tagName # VCGT
     \/ gammaType \notin {0, 1}
     \/ gammaType = 0 /\ numChannels # 3

\* C1 (as claimed): once decoding has ended in a fatal condition the failure is
\* visible to the caller (a return value other than that of a success) and the
\* ramp-consumer is not invoked in that run.
C1_FatalStops == FatalDecode => (ret # 0 /\ ~ConsumerCalled)

\* C2 (as claimed): every sample index used while building the ramp of a Table
\* curve lies in [0, entryCount), when down-sampling and when up-sampling.
C2_IndexInRange ==
  /\ pc = "down" => (0 <= DownIndex /\ DownIndex < numEntries)
  /\ pc = "up" => (0 <= UpIndex /\ UpIndex < numEntries)

\* C3 (as claimed): a Table tag whose header was read in full and has channelCount # 3 or entrySize outside {1,2}
\* is rejected: the return value differs from that of a success and the output
\* ramps are not populated.
C3_TableRejected ==
  (Returned /\ gammaType = 0 /\ bytesRead = 2 /\ (numChannels # 3 \/ entrySize \notin {1, 2}))
    => (ret # 0 /\ r_ramp = NoRamp /\ g_ramp = NoRamp /\ b_ramp = NoRamp)

\* C4 (as claimed): when the file ends before a read of the tag count or of the
\* tag directory completes, no value is taken from bytes that were not read (the
\* parser never goes on in the directory after a short read) and the decoder
\* returns an error outcome.
C4_ShortDirectoryRead ==
  /\ pc \in {"dir_name", "dir_off", "dir_size", "dir_check"} => bytesRead = 4
  /\ (Returned /\ ret # -1 /\ gammaType = Unset /\ bytesRead < 4) => ret # 0

\* the signature about to be re-read at tagOffset is not 'vcgt'
SigMismatch == pc = "tag_sig" /\ U32(FreadBuf(file, cTmp, pos, 4)) # VCGT
\* the mismatch has been reported
MismatchReported == \E k \in 1..Len(out) : out[k] = "invalid content of table vcgt"

\* C5 (as claimed): a mismatch of the re-read signature is reported and decoding
\* continues: the process does not end there, the reserved field and the curve
\* type are read next.
C5_MismatchContinues ==
  MismatchReported => ~(pc = "exited" /\ gammaType = Unset)

\* C5 (amended): a mismatch of the re-read signature is reported by error(), which
\* ends the process with exit(-1): the curve type is never read, no ramp is
\* produced and no call that alters the display is made.
C5_MismatchExits ==
  /\ [](MismatchReported =>
          /\ pc = "exited" /\ status = 255
          /\ gammaType = Unset
          /\ r_ramp = NoRamp /\ g_ramp = NoRamp /\ b_ramp = NoRamp
          /\ xcalls = << >>)
  /\ [][SigMismatch => (MismatchReported' /\ pc' = "exited")]_vars

C5_Witness == MismatchReported /\ pc = "exited" /\ tagName # VCGT /\ bytesRead = 4

\* a Table curve was decoded and resampled, and the decoder has returned
TableDone == ret = 0 /\ gammaType = 0 /\ numChannels = 3

\* C6: for a Table curve with entryCount == targetSize the ramp is the identity
\* on the decoded samples, in every channel.
C6_Identity ==
  (TableDone /\ numEntries = ramp_size) =>
    /\ Len(r_ramp) = ramp_size /\ Len(g_ramp) = ramp_size /\ Len(b_ramp) = ramp_size
    /\ \A jj \in 0..(ramp_size - 1) :
         /\ r_ramp[jj + 1] = redRamp[jj + 1]
         /\ g_ramp[jj + 1] = greenRamp[jj + 1]
         /\ b_ramp[jj + 1] = blueRamp[jj + 1]

C6_Witness ==
  /\ TableDone /\ numEntries = ramp_size /\ ramp_size >= 3
  /\ redRamp[1] # redRamp[2] /\ redRamp[1] # greenRamp[1] /\ greenRamp[1] # blueRamp[1]

\* C7: down-sampling, entryCount > targetSize >= 1: with ratio = floor(entryCount /
\* targetSize), ramp_c[j] == samples_c[min(ratio * j, entryCount - 1)] in every
\* channel c and for every j, nearest-neighbour decimation.
C7_DownSample ==
  (TableDone /\ numEntries > ramp_size) =>
    /\ Len(r_ramp) = ramp_size /\ Len(g_ramp) = ramp_size /\ Len(b_ramp) = ramp_size
    /\ \A jj \in 0..(ramp_size - 1) :
         LET idx == Min((numEntries \div ramp_size) * jj, numEntries - 1)
         IN  /\ r_ramp[jj + 1] = redRamp[idx + 1]
             /\ g_ramp[jj + 1] = greenRamp[idx + 1]
             /\ b_ramp[jj + 1] = blueRamp[idx + 1]

\* the ratio is 2 and does not divide: 5 samples decimated to 2 entries
C7_Witness ==
  /\ TableDone /\ numEntries > ramp_size /\ ramp_size >= 2
  /\ numEntries % ramp_size # 0 /\ numEntries \div ramp_size >= 2
  /\ entrySize = 2 /\ redRamp[1] # redRamp[3] /\ redRamp[2] # redRamp[3]
  /\ r_ramp[2] = redRamp[3]

\* C8 (as claimed): up-sampling, 1 <= entryCount < targetSize: with ratio =
\* floor(targetSize / entryCount), ramp_c[j] == samples_c[min(floor(j / ratio),
\* entryCount - 1)] in every channel c and for every j, also when entryCount does
\* not divide targetSize.
C8_UpSample ==
  (TableDone /\ 1 <= numEntries /\ numEntries < ramp_size) =>
    \A jj \in 0..(ramp_size - 1) :
      LET idx == Min(jj \div (ramp_size \div numEntries), numEntries - 1)
      IN  /\ r_ramp[jj + 1] = redRamp[idx + 1]
          /\ g_ramp[jj + 1] = greenRamp[idx + 1]
          /\ b_ramp[jj + 1] = blueRamp[idx + 1]

\* C9 (as claimed): with -n / -noaction no call that alters the display gamma
\* state is made, whatever the other options.
C9_NoAction == donothing => xcalls = << >>

\* the ICCLIB build has produced a ramp and the validation loop has run
RampValidated ==
  /\ build = "icclib"
  /\ pc \in {"print", "setramp", "finish", "cleanupX", "exited"}
  /\ r_ramp # NoRamp
\* past the place where main hands the ramp to XF86VidModeSetGammaRamp
PastSetRamp == pc \in {"finish", "cleanupX", "exited"}
Decreasing(ramp) == \E k \in 1..(ramp_size - 1) : ramp[k + 1] < ramp[k]
Warned(msg) == \E k \in 1..Len(out) : out[k] = msg
\* the ramps as they are now were handed to the ramp-consumer
HandedOver ==
  \E k \in 1..Len(xcalls) :
    /\ xcalls[k].fn = "XF86VidModeSetGammaRamp"
    /\ xcalls[k].size = ramp_size
    /\ xcalls[k].red = r_ramp /\ xcalls[k].green = g_ramp /\ xcalls[k].blue = b_ramp
FlaggedIffDecreasing ==
  /\ Decreasing(r_ramp) <=> Warned("nonsense content in red gamma table")
  /\ Decreasing(g_ramp) <=> Warned("nonsense content in green gamma table")
  /\ Decreasing(b_ramp) <=> Warned("nonsense content in blue gamma table")
CheckLeavesRamp ==
  pc = "validate" => (r_ramp' = r_ramp /\ g_ramp' = g_ramp /\ b_ramp' = b_ramp /\ pc' = "print")

ScaledValues(g) ==
  { FormulaScaled(jj, ramp_size, g, side) : jj \in 0..(ramp_size - 1), side \in {"lo", "hi"} }
\* a Formula curve was evaluated
FormulaDone == gammaType = 1 /\ pc \in {"cleanup", "print", "setramp", "finish", "cleanupX", "exited"}
                /\ r_ramp # NoRamp
\* ramp is what the formula gives for gamma word g, stored without any change
StoredAsComputed(ramp, g) ==
  \E side \in {"lo", "hi"} :
    \A jj \in 0..(ramp_size - 1) : ramp[jj + 1] = FormulaScaled(jj, ramp_size, g, side)

\* C11 (as claimed): for every decoded gamma word, 0 included, and every j in
\* 0..targetSize-1 the scaled value computed before narrowing lies in [0, 65535],
\* so that the stored 16-bit ramp entry equals the computed value and never wraps.
C11_FormulaInRange ==
  /\ pc = "formula_eval" =>
       \A c \in {1, 4, 7} : \A v \in ScaledValues(fml[c]) : 0 <= v /\ v <= 65535
  /\ FormulaDone =>
       /\ StoredAsComputed(r_ramp, fml[1])
       /\ StoredAsComputed(g_ramp, fml[4])
       /\ StoredAsComputed(b_ramp, fml[7])

\* the sample loops of a Table curve with three channels have run
SamplesDecoded ==
  /\ gammaType = 0 /\ numChannels = 3
  /\ pc \in {"resample", "down", "up", "cleanup", "print", "setramp", "finish",
             "cleanupX", "exited", "crashed"}
\* file position behind the tag head (signature, reserved, type) and the 6-byte
\* table header
PayloadStart == tagOffset + 12 + 6
\* the file holds the whole payload of 3 * numEntries samples of entrySize bytes
PayloadPresent == Len(file) >= PayloadStart + 3 * numEntries * entrySize
\* big-endian unsigned value of the e bytes of f at offset p
BEValue(f, p, e) == IF e = 1 THEN f[p + 1] ELSE f[p + 1] * 256 + f[p + 2]
\* the decoded sample k of channel c
SampleOf(c, k) ==
  IF c = 0 THEN redRamp[k + 1] ELSE IF c = 1 THEN greenRamp[k + 1] ELSE blueRamp[k + 1]

\* C12 (as claimed): for entrySize e in {1, 2} and three channels the sample
\* loops consume exactly 3 * entryCount * e bytes behind the 6-byte table header,
\* and sample k of channel c is the big-endian unsigned value of the e bytes at
\* payload offset (c * entryCount + k) * e: no byte is read twice or skipped.
C12_ExactSampleBytes ==
  (SamplesDecoded /\ entrySize \in {1, 2} /\ PayloadPresent) =>
    /\ pos = PayloadStart + 3 * numEntries * entrySize
    /\ \A c \in 0..2 : \A k \in 0..(numEntries - 1) :
         SampleOf(c, k) = BEValue(file, PayloadStart + (c * numEntries + k) * entrySize,
                                  entrySize)

\* the directory scan has found the vcgt entry and the tag body is being decoded
InTagBody ==
  pc \in {"tag_reserved", "tag_type", "formula", "formula_eval", "table", "alloc",
          "samples", "resample", "down", "up"}
\* first file position behind the tag as the directory entry declares it
TagEnd == tagOffset + tagSize
\* first file position behind the payload that curve type, entry count and entry
\* size imply
ImpliedEnd ==
  IF gammaType = 1 THEN tagOffset + 12 + 9 * 4
  ELSE IF gammaType = 0
       THEN IF numChannels = 3 /\ entrySize \in {1, 2}
            THEN PayloadStart + 3 * numEntries * entrySize
            ELSE PayloadStart
       ELSE tagOffset

\* C13 (as claimed): while the vcgt tag body is decoded no byte at a file position
\* >= tagOffset + tagSize is read, and when the payload that curveType, entryCount
\* and entrySize imply extends past tagOffset + tagSize the decoder fails with an
\* error outcome instead of producing a ramp.
C13_WithinTag ==
  /\ (InTagBody /\ pos > tagOffset) => pos <= TagEnd
  /\ (Returned /\ gammaType \in {0, 1} /\ ImpliedEnd > TagEnd) =>
       (ret # 0 /\ r_ramp = NoRamp /\ g_ramp = NoRamp /\ b_ramp = NoRamp)

\* file offset of directory entry k, and the signature and offset fields it holds
DirEntryAt(k) == HeaderLen + 4 + 12 * k
DirSig(k) == U32(SubSeq(file, DirEntryAt(k) + 1, DirEntryAt(k) + 4))
DirOff(k) == U32(SubSeq(file, DirEntryAt(k) + 5, DirEntryAt(k) + 8))
\* the scan is inside the directory
InDirectory == pc \in {"dir_name", "dir_off", "dir_size", "dir_check"}
\* the scan has stopped at a directory entry named 'vcgt'
Found == pc = "tag_sig" \/ InTagBody \/ gammaType # Unset \/ MismatchReported

\* C14: the tag directory is scanned in order and the scan stops at the first
\* entry whose signature is 'vcgt': no entry before it has that signature, the
\* tag is decoded from that entry's offset only (every read is at or behind it,
\* the curve type is the word at offset + 8), and from then on the scan never
\* moves to a later directory entry, a second 'vcgt' entry included.
C14_FirstVcgtWins ==
  /\ [](InDirectory =>
          /\ pos <= DirEntryAt(i) + 12
          /\ \A k \in 0..(i - 1) : DirSig(k) # VCGT)
  /\ [](Found =>
          /\ i < numTags
          /\ DirSig(i) = VCGT
          /\ \A k \in 0..(i - 1) : DirSig(k) # VCGT
          /\ tagOffset = DirOff(i)
          /\ pos >= tagOffset
          /\ (gammaType # Unset /\ Len(file) >= tagOffset + 12) =>
               gammaType = U32(SubSeq(file, tagOffset + 9, tagOffset + 12)))
  /\ [][Found => (Found' /\ ~InDirectory' /\ i' = i /\ tagOffset' = tagOffset)]_vars

\* a directory desc, vcgt, vcgt: the Table curve of the second entry was decoded,
\* the third entry, which points at a Formula curve, was never reached
C14_Witness ==
  /\ ret = 0 /\ numTags = 3 /\ i = 1 /\ r_ramp # NoRamp
  /\ Len(file) >= DirEntryAt(3)
  /\ DirSig(1) = VCGT /\ DirSig(2) = VCGT /\ DirOff(2) # DirOff(1)
  /\ gammaType = 0 /\ fml = << >>
  /\ Len(file) >= DirOff(2) + 12 /\ U32(SubSeq(file, DirOff(2) + 9, DirOff(2) + 12)) = 1

====
